---- MODULE Spec2Model ----
(***************************************************************************)
(* Model of the Yagi goat dashboard client: the yewdux GoatStore           *)
(* (frontend/src/store.rs), its four asynchronous operations, and the      *)
(* form handlers that invoke them.  Every spawn_local task is a record in  *)
(* `tasks`; a task suspends only at an `.await`, and every reduce_mut      *)
(* closure is applied atomically (single-threaded wasm executor).          *)
(***************************************************************************)
EXTENDS Integers, Sequences, FiniteSets, TLC

\* ---- bounds of the model ----
MaxTasks == 2        \* store operations invoked in one run
MaxBody == 1         \* records in one GET /goats response body
MaxGoats == 2        \* records the store holds when a scenario starts

\* ---- input domains ----
Names == {"A", "B"}
Offsprings == {0, 1}
Statuses == {200, 500}

\* shared::GoatParams, reduced to its key and one payload field
GoatParams == [name : Names, offspring : Offsprings]

\* Option<T>
None == << >>
Some(x) == << x >>

RECURSIVE SeqsUpTo(_, _)
SeqsUpTo(S, n) ==
    IF n = 0 THEN { << >> }
    ELSE LET shorter == SeqsUpTo(S, n - 1)
         IN  shorter \cup { Append(s, x) : s \in { t \in shorter : Len(t) = n - 1 }, x \in S }

\* what a backend may put in a response body: JSON that decodes as
\* Vec<GoatParams>, or anything else
Bodies ==
    { [decodes |-> TRUE, goats |-> gl] : gl \in SeqsUpTo(GoatParams, MaxBody) }
        \cup { [decodes |-> FALSE, goats |-> << >>] }

\* a formatted message: its fixed text and the values interpolated into it
Msg(text, status, name) == [text |-> text, status |-> status, name |-> name]

\* Result<(), AppError>
ResOk == [ok |-> TRUE, kind |-> "", msg |-> Msg("", 0, "")]
ResErr(kind, msg) == [ok |-> FALSE, kind |-> kind, msg |-> msg]

\* gloo_net Response::ok(): status in 200..=299
IsOk(status) == status >= 200 /\ status <= 299

\* HashMap<String, String>: a function from the keys present to their values
EmptyMap == [k \in {} |-> ""]
insert(map, k, v) == [x \in DOMAIN map \cup {k} |-> IF x = k THEN v ELSE map[x]]

\* the text the delete form shows for a result: "Deleted successfully." or
\* format!("Failed: {}", e) with the error it was handed
ResultText(res) ==
    [text |-> IF res.ok THEN "Deleted successfully." ELSE "Failed: ", err |-> res]

\* GoatStore::default()
GoatStore == [goats |-> << >>, loading |-> FALSE, error |-> None]

VARIABLES
    store,       \* the yewdux GoatStore: [goats, loading, error]
    tasks,       \* one record per spawn_local task, in invocation order
    found_goat,  \* update form: the record loaded by "Load Goat"
    results,     \* delete form: the use_state map from name to result text
    codec,       \* a text, the value parsed from it and the text written back
    form,        \* the use_state fields of the form a scenario is about
    last         \* the handler step that produced the current state

vars == << store, tasks, found_goat, results, codec, form, last >>

\* ---- sequence helpers (Vec methods) ----

\* Iterator::position: 1-based index of the first entry named n, 0 if none
RECURSIVE PositionFrom(_, _, _)
PositionFrom(gs, n, i) ==
    IF i > Len(gs) THEN 0
    ELSE IF gs[i].name = n THEN i
    ELSE PositionFrom(gs, n, i + 1)

position(gs, n) == PositionFrom(gs, n, 1)

RECURSIVE retain_Truncates(_, _)
retain_Truncates(gs, n) ==
    IF gs = << >> THEN << >>
    ELSE IF Head(gs).name # n THEN << Head(gs) >> \o retain_Truncates(Tail(gs), n)
    ELSE << >>

RECURSIVE retain_IgnoreCase(_, _)
retain_IgnoreCase(gs, n) ==
    LET fold(x) == CASE x = "A" -> "a" [] x = "B" -> "b" [] OTHER -> x
    IN  IF gs = << >> THEN << >>
        ELSE IF fold(Head(gs).name) # fold(n)
             THEN << Head(gs) >> \o retain_IgnoreCase(Tail(gs), n)
             ELSE retain_IgnoreCase(Tail(gs), n)

\* Vec::retain(|g| g.name != n)
RECURSIVE retain(_, _)
retain(gs, n) ==
    IF gs = << >> THEN << >>
    ELSE IF Head(gs).name # n THEN << Head(gs) >> \o retain(Tail(gs), n)
    ELSE retain(Tail(gs), n)


\* ---- reduce_mut closures of store.rs: GoatStore -> GoatStore ----

FetchBegin_KeepsError(s) == [s EXCEPT !.loading = TRUE]

\* fetch_goats, before the request is sent
FetchBegin(s) == [s EXCEPT !.loading = TRUE, !.error = None]

FetchParsed_Extend(s, gl) ==
    [s EXCEPT !.goats = s.goats \o gl, !.loading = FALSE, !.error = None]

\* fetch_goats, body parsed as Vec<GoatParams>
FetchParsed(s, gl) ==
    [s EXCEPT !.goats = gl, !.loading = FALSE, !.error = None]

FetchParseErr_Clear(s, msg) ==
    [s EXCEPT !.goats = << >>, !.loading = FALSE, !.error = Some(msg)]

\* fetch_goats, body did not parse
FetchParseErr(s, msg) ==
    [s EXCEPT !.loading = FALSE, !.error = Some(msg)]

\* fetch_goats, send() failed
FetchReqErr(s, msg) ==
    [s EXCEPT !.loading = FALSE, !.error = Some(msg)]

\* add_goat_async, before the request is sent
AddBegin(s) == [s EXCEPT !.loading = TRUE, !.error = None]

AddOk_Front(s, goat) ==
    [s EXCEPT !.goats = << goat >> \o s.goats, !.loading = FALSE]

\* add_goat_async, Ok(resp) if resp.ok()
AddOk(s, goat) ==
    [s EXCEPT !.goats = Append(s.goats, goat), !.loading = FALSE]

AddServerErr_StillLoading(s, msg) ==
    [s EXCEPT !.error = Some(msg)]

\* add_goat_async, Ok(resp) with a non-ok status
AddServerErr(s, msg) ==
    [s EXCEPT !.loading = FALSE, !.error = Some(msg)]

AddNetErr_StillLoading(s, msg) == [s EXCEPT !.error = Some(msg)]

\* add_goat_async, Err(net_err)
AddNetErr(s, msg) ==
    [s EXCEPT !.loading = FALSE, !.error = Some(msg)]

DeleteOk_FirstOnly(s, goat_name) ==
    LET pos == position(s.goats, goat_name)
    IN  IF pos = 0 THEN s
        ELSE [s EXCEPT !.goats = SubSeq(s.goats, 1, pos - 1)
                                   \o SubSeq(s.goats, pos + 1, Len(s.goats))]

DeleteOk_SkipsLast(s, goat_name) ==
    LET n == Len(s.goats)
    IN  IF n = 0 THEN s
        ELSE [s EXCEPT !.goats = retain(SubSeq(s.goats, 1, n - 1), goat_name)
                                   \o << s.goats[n] >>]

\* delete_goat_async, Ok(response) if response.ok()
DeleteOk(s, goat_name) ==
    [s EXCEPT !.goats = retain(s.goats, goat_name)]

UpdateOk_NoPush(s, updated_goat) ==
    LET pos == position(s.goats, updated_goat.name)
    IN  IF pos # 0 THEN [s EXCEPT !.goats[pos] = updated_goat] ELSE s

\* update_goat_async, Ok(resp) if resp.ok()
UpdateOk(s, updated_goat) ==
    LET pos == position(s.goats, updated_goat.name)
    IN  IF pos # 0
        THEN [s EXCEPT !.goats[pos] = updated_goat]
        ELSE [s EXCEPT !.goats = Append(s.goats, updated_goat)]

OptimisticReplace_Skip(s, updated) == s

\* update_goat_form onsubmit, the reduce_mut before update_goat_async
OptimisticReplace(s, updated) ==
    LET pos == position(s.goats, updated.name)
    IN  IF pos # 0 THEN [s EXCEPT !.goats[pos] = updated] ELSE s

\* ---- what an async block does once its request has resolved:      ----
\* ---- the store it leaves and the outcome it hands to on_result ----

DeleteFailed_RemovesAnyway(s, kind, msg) ==
    [store |-> [s EXCEPT !.goats = retain(s.goats, msg.name)],
     outcome |-> ResErr(kind, msg)]

DeleteFailed_SetsError(s, kind, msg) ==
    [store |-> [s EXCEPT !.loading = FALSE, !.error = Some(msg)],
     outcome |-> ResErr(kind, msg)]

\* delete_goat_async, the two Err arms of `outcome`
DeleteFailed(s, kind, msg) ==
    [store |-> s, outcome |-> ResErr(kind, msg)]

UpdateFailed_RollsBack(s, kind, msg) ==
    [store |-> [s EXCEPT !.goats = retain(s.goats, msg.name)],
     outcome |-> ResErr(kind, msg)]

UpdateFailed_NotFound(s, kind, msg) ==
    [store |-> s, outcome |-> ResErr("NotFound", msg)]

\* update_goat_async, the two Err arms of `outcome`
UpdateFailed(s, kind, msg) ==
    [store |-> s, outcome |-> ResErr(kind, msg)]

\* ---- tasks ----

Task(op, goat_name, goat) ==
    [op |-> op, goat_name |-> goat_name, goat |-> goat,
     pc |-> "send", status |-> 0, received |-> << >>, results |-> EmptyMap]

Finished_EmitsTwice(task, outcomes) ==
    [task EXCEPT !.pc = "done", !.goat_name = "", !.goat = None, !.status = 0,
                 !.results = EmptyMap,
                 !.received = @ \o outcomes \o outcomes]

\* a finished async block: its locals are dropped, what on_result received stays
Finished(task, outcomes) ==
    [task EXCEPT !.pc = "done", !.goat_name = "", !.goat = None, !.status = 0,
                 !.results = EmptyMap,
                 !.received = @ \o outcomes]

\* the step just taken: which handler or continuation ran, for which task,
\* the task's arguments, and the response it was given
Event(ev, id, task, status, body) ==
    [ev |-> ev, id |-> id, goat_name |-> task.goat_name, goat |-> task.goat,
     status |-> status, body |-> body, initial_len |-> 0]

NoTask == Task("", "", None)

NoBody == [decodes |-> FALSE, goats |-> << >>]

\* no form is part of the scenario
NoForm == [name |-> << >>]

\* no text has been handed to a parser
NoCodec == [pc |-> "", text |-> "", value |-> None, out |-> "", back |-> None]

Awaiting(op, pc) == { t \in DOMAIN tasks : tasks[t].op = op /\ tasks[t].pc = pc }

Init ==
    /\ store = GoatStore
    /\ tasks = << >>
    /\ found_goat = None
    /\ results = EmptyMap
    /\ codec = NoCodec
    /\ form = NoForm
    /\ last = Event("init", 0, NoTask, 0, NoBody)

\* -- fetchAll --

\* GoatStore::fetch_goats up to spawn_local
fetch_goats ==
    /\ Len(tasks) < MaxTasks
    /\ store' = FetchBegin(store)
    /\ tasks' = Append(tasks, Task("fetch", "", None))
    /\ last' = Event("fetch_goats", Len(tasks) + 1, NoTask, 0, NoBody)
    /\ UNCHANGED << found_goat, results, codec, form >>

\* Request::get(..).send().await resolves to Ok(resp)
FetchSendOk(t, status) ==
    /\ t \in Awaiting("fetch", "send")
    /\ tasks' = [tasks EXCEPT ![t].pc = "json", ![t].status = status]
    /\ last' = Event("fetch_responded", t, tasks[t], status, NoBody)
    /\ UNCHANGED << store, found_goat, results, codec, form >>

\* Request::get(..).send().await resolves to Err(req_err)
FetchSendErr(t) ==
    /\ t \in Awaiting("fetch", "send")
    /\ store' = FetchReqErr(store, Msg("HTTP request failed", 0, ""))
    /\ tasks' = [tasks EXCEPT ![t] = Finished(@, << >>)]
    /\ last' = Event("fetch_req_err", t, tasks[t], 0, NoBody)
    /\ UNCHANGED << found_goat, results, codec, form >>

\* resp.json::<Vec<GoatParams>>().await resolves
FetchJson(t, body) ==
    /\ t \in Awaiting("fetch", "json")
    /\ store' = IF body.decodes
                THEN FetchParsed(store, body.goats)
                ELSE FetchParseErr(store, Msg("Failed to parse goats JSON", 0, ""))
    /\ tasks' = [tasks EXCEPT ![t] = Finished(@, << >>)]
    /\ last' = Event(IF body.decodes THEN "fetch_parsed" ELSE "fetch_parse_err",
                     t, tasks[t], tasks[t].status, body)
    /\ UNCHANGED << found_goat, results, codec, form >>

\* -- create --

\* GoatStore::add_goat_async up to spawn_local
add_goat_async(goat) ==
    /\ Len(tasks) < MaxTasks
    /\ store' = AddBegin(store)
    /\ tasks' = Append(tasks, Task("create", goat.name, Some(goat)))
    /\ last' = Event("add_goat_async", Len(tasks) + 1,
                     Task("create", goat.name, Some(goat)), 0, NoBody)
    /\ UNCHANGED << found_goat, results, codec, form >>

\* the POST resolves to Ok(resp)
AddResponded(t, status) ==
    /\ t \in Awaiting("create", "send")
    /\ store' = IF IsOk(status)
                THEN AddOk(store, tasks[t].goat[1])
                ELSE AddServerErr(store, Msg("Server error: HTTP", status, ""))
    /\ tasks' = [tasks EXCEPT ![t] = Finished(@, << >>)]
    /\ last' = Event(IF IsOk(status) THEN "add_ok" ELSE "add_server_err",
                         t, tasks[t], status, NoBody)
    /\ UNCHANGED << found_goat, results, codec, form >>

\* the POST resolves to Err(net_err)
AddSendErr(t) ==
    /\ t \in Awaiting("create", "send")
    /\ store' = AddNetErr(store, Msg("Network error", 0, ""))
    /\ tasks' = [tasks EXCEPT ![t] = Finished(@, << >>)]
    /\ last' = Event("add_net_err", t, tasks[t], 0, NoBody)
    /\ UNCHANGED << found_goat, results, codec, form >>

\* -- delete --

\* GoatStore::delete_goat_async: only spawns the task; on_result is the form's
\* callback, which holds a clone of the `results` handle and so the map that
\* handle was created with
delete_goat_async(ts, goat_name, on_result) ==
    Append(ts, [Task("delete", goat_name, None) EXCEPT !.results = on_result])

\* the `for name in names` loop of the delete form
RECURSIVE DeleteEach(_, _, _)
DeleteEach(ts, names, handle) ==
    IF names = << >> THEN ts
    ELSE DeleteEach(delete_goat_async(ts, Head(names), handle), Tail(names), handle)

\* the form's callback: the new value of `results` is a clone of (*results),
\* the map its handle holds, with the name's text inserted
on_result(task, res) ==
    insert(task.results, task.goat_name, ResultText(res))

\* delete_goats_form onsubmit with no name in the text field
delete_goats_form_onsubmit_empty ==
    /\ results' = insert(EmptyMap, "", ResultText(ResErr("", Msg("Please enter at least one name.", 0, ""))))
    /\ results' # results
    /\ last' = Event("delete_goats_form_empty", 0, NoTask, 0, NoBody)
    /\ UNCHANGED << store, tasks, found_goat, codec, form >>

\* the deduplicated names of the delete form, in HashSet iteration order
NameBatches ==
    { ns \in SeqsUpTo(Names, MaxTasks) :
        ns # << >> /\ \A i, j \in DOMAIN ns : i # j => ns[i] # ns[j] }

\* delete_goats_form onsubmit with at least one name: one delete per name
delete_goats_form_onsubmit(names) ==
    /\ Len(tasks) + Len(names) <= MaxTasks
    /\ results' = EmptyMap
    /\ tasks' = DeleteEach(tasks, names, results)
    /\ last' = Event("delete_goats_form", Len(tasks) + 1, NoTask, 0, NoBody)
    /\ UNCHANGED << store, found_goat, codec, form >>

\* the DELETE resolves to Ok(response)
DeleteResponded(t, status) ==
    LET failed == DeleteFailed(store, "Unexpected",
                               Msg("Server error for deleting", status, tasks[t].goat_name))
        outcome == IF IsOk(status) THEN ResOk ELSE failed.outcome
    IN  /\ t \in Awaiting("delete", "send")
        /\ store' = IF IsOk(status) THEN DeleteOk(store, tasks[t].goat_name)
                                    ELSE failed.store
        /\ tasks' = [tasks EXCEPT ![t] = Finished(@, << outcome >>)]
        /\ results' = on_result(tasks[t], outcome)
        /\ last' = IF IsOk(status)
                   THEN [Event("delete_ok", t, tasks[t], status, NoBody)
                            EXCEPT !.initial_len = Len(store.goats)]
                   ELSE Event("delete_server_err", t, tasks[t], status, NoBody)
        /\ UNCHANGED << found_goat, codec, form >>

\* the DELETE resolves to Err(e)
DeleteSendErr(t) ==
    LET failed == DeleteFailed(store, "NetworkError",
                               Msg("Network error while deleting", 0, tasks[t].goat_name))
    IN  /\ t \in Awaiting("delete", "send")
        /\ store' = failed.store
        /\ tasks' = [tasks EXCEPT ![t] = Finished(@, << failed.outcome >>)]
        /\ results' = on_result(tasks[t], failed.outcome)
        /\ last' = Event("delete_net_err", t, tasks[t], 0, NoBody)
        /\ UNCHANGED << found_goat, codec, form >>

\* -- update --

\* str::to_lowercase on the letters the names are made of
to_lowercase(n) ==
    CASE n = "A" -> "a"
      [] n = "B" -> "b"
      [] OTHER -> n

Queries == Names \cup {"b", ""}

RECURSIVE FindFrom_CaseSensitive(_, _, _)
FindFrom_CaseSensitive(gs, query, i) ==
    IF i > Len(gs) THEN 0
    ELSE IF gs[i].name = query THEN i
    ELSE FindFrom_CaseSensitive(gs, query, i + 1)

\* Iterator::find(|g| g.name.to_lowercase() == query): index of the first match, 0 if none
RECURSIVE FindFrom(_, _, _)
FindFrom(gs, query, i) ==
    IF i > Len(gs) THEN 0
    ELSE IF to_lowercase(gs[i].name) = query THEN i
    ELSE FindFrom(gs, query, i + 1)

\* update_goat_form on_search ("Load Goat")
on_search(search_name) ==
    LET query == to_lowercase(search_name)
        i == FindFrom(store.goats, query, 1)
    IN  /\ found_goat' = IF query = "" \/ i = 0 THEN None ELSE Some(store.goats[i])
        /\ found_goat' # found_goat
        /\ last' = Event("on_search", 0, NoTask, 0, NoBody)
        /\ UNCHANGED << store, tasks, results, codec, form >>

\* update_goat_form onsubmit with valid fields and a loaded goat:
\* the optimistic reduce_mut, then GoatStore::update_goat_async spawns the task
update_goat_form_onsubmit(updated) ==
    /\ found_goat # None
    /\ Len(tasks) < MaxTasks
    /\ store' = OptimisticReplace(store, updated)
    /\ tasks' = Append(tasks, Task("update", updated.name, Some(updated)))
    /\ last' = Event("update_goat_form", Len(tasks) + 1,
                     Task("update", updated.name, Some(updated)), 0, NoBody)
    /\ UNCHANGED << found_goat, results, codec, form >>

\* the PUT resolves to Ok(resp)
UpdateResponded(t, status) ==
    LET failed == UpdateFailed(store, "Unexpected",
                               Msg("Server returned error while updating", status,
                                   tasks[t].goat_name))
        outcome == IF IsOk(status) THEN ResOk ELSE failed.outcome
    IN  /\ t \in Awaiting("update", "send")
        /\ store' = IF IsOk(status) THEN UpdateOk(store, tasks[t].goat[1])
                                    ELSE failed.store
        /\ tasks' = [tasks EXCEPT ![t] = Finished(@, << outcome >>)]
        /\ last' = Event(IF IsOk(status) THEN "update_ok" ELSE "update_server_err",
                         t, tasks[t], status, NoBody)
        /\ UNCHANGED << found_goat, results, codec, form >>

\* the PUT resolves to Err(err)
UpdateSendErr(t) ==
    LET failed == UpdateFailed(store, "NetworkError",
                               Msg("Network error while updating", 0, tasks[t].goat_name))
    IN  /\ t \in Awaiting("update", "send")
        /\ store' = failed.store
        /\ tasks' = [tasks EXCEPT ![t] = Finished(@, << failed.outcome >>)]
        /\ last' = Event("update_net_err", t, tasks[t], 0, NoBody)
        /\ UNCHANGED << found_goat, results, codec, form >>

TaskIds == 1 .. MaxTasks

Next ==
    \/ fetch_goats
    \/ \E t \in TaskIds, status \in Statuses : FetchSendOk(t, status)
    \/ \E t \in TaskIds : FetchSendErr(t)
    \/ \E t \in TaskIds, body \in Bodies : FetchJson(t, body)
    \/ \E goat \in GoatParams : add_goat_async(goat)
    \/ \E t \in TaskIds, status \in Statuses : AddResponded(t, status)
    \/ \E t \in TaskIds : AddSendErr(t)
    \/ \E names \in NameBatches : delete_goats_form_onsubmit(names)
    \/ \E t \in TaskIds, status \in Statuses : DeleteResponded(t, status)
    \/ \E t \in TaskIds : DeleteSendErr(t)
    \/ \E search_name \in Queries : on_search(search_name)
    \/ \E updated \in GoatParams : update_goat_form_onsubmit(updated)
    \/ \E t \in TaskIds, status \in Statuses : UpdateResponded(t, status)
    \/ \E t \in TaskIds : UpdateSendErr(t)

Spec == Init /\ [][Next]_vars

\* ---- the four operations under fair scheduling, on one goat: the store ----
\* ---- holds A, the update form has loaded it                            ----

LoadedGoat == [name |-> "A", offspring |-> 0]

InitLive ==
    /\ store = [GoatStore EXCEPT !.goats = << LoadedGoat >>]
    /\ tasks = << >>
    /\ found_goat = Some(LoadedGoat)
    /\ results = EmptyMap
    /\ codec = NoCodec
    /\ form = NoForm
    /\ last = Event("init", 0, NoTask, 0, NoBody)

\* the bodies a response carries here: an empty list, or nothing that decodes
LiveBodies == { [decodes |-> TRUE, goats |-> << >>], NoBody }

NextLive ==
    \/ fetch_goats
    \/ add_goat_async([LoadedGoat EXCEPT !.offspring = 1])
    \/ delete_goats_form_onsubmit(<< "A" >>)
    \/ update_goat_form_onsubmit([LoadedGoat EXCEPT !.offspring = 1])
    \/ \E t \in TaskIds, status \in Statuses : FetchSendOk(t, status)
    \/ \E t \in TaskIds : FetchSendErr(t)
    \/ \E t \in TaskIds, body \in LiveBodies : FetchJson(t, body)
    \/ \E t \in TaskIds, status \in Statuses : AddResponded(t, status)
    \/ \E t \in TaskIds : AddSendErr(t)
    \/ \E t \in TaskIds, status \in Statuses : DeleteResponded(t, status)
    \/ \E t \in TaskIds : DeleteSendErr(t)
    \/ \E t \in TaskIds, status \in Statuses : UpdateResponded(t, status)
    \/ \E t \in TaskIds : UpdateSendErr(t)

\* a continuation of task t runs: its request, or the decoding of its body, has resolved
Resolve(t) ==
    \/ \E status \in Statuses : FetchSendOk(t, status)
    \/ FetchSendErr(t)
    \/ \E body \in LiveBodies : FetchJson(t, body)
    \/ \E status \in Statuses : AddResponded(t, status)
    \/ AddSendErr(t)
    \/ \E status \in Statuses : DeleteResponded(t, status)
    \/ DeleteSendErr(t)
    \/ \E status \in Statuses : UpdateResponded(t, status)
    \/ UpdateSendErr(t)

\* every request that was sent resolves, and the executor then polls its task
SpecLive == InitLive /\ [][NextLive]_vars /\ \A t \in TaskIds : WF_vars(Resolve(t))

\* ---- the batch-delete scenario: delete("A") and delete("B") issued ----
\* ---- together against a store holding any fetched collection       ----

\* the records a fetch may have put in the store, one name more than the deletes use
FetchedGoats == [name : Names \cup {"a"}, offspring : Offsprings]

InitDeletes ==
    /\ store \in { [GoatStore EXCEPT !.goats = gl] : gl \in SeqsUpTo(FetchedGoats, MaxGoats) }
    /\ tasks = << >>
    /\ found_goat = None
    /\ results = EmptyMap
    /\ codec = NoCodec
    /\ form = NoForm
    /\ last = Event("init", 0, NoTask, 0, NoBody)

NextDeletes ==
    \/ \E names \in { << "A", "B" >>, << "B", "A" >> } : delete_goats_form_onsubmit(names)
    \/ delete_goats_form_onsubmit_empty
    \/ \E t \in TaskIds, status \in Statuses : DeleteResponded(t, status)
    \/ \E t \in TaskIds : DeleteSendErr(t)

SpecDeletes == InitDeletes /\ [][NextDeletes]_vars

\* ---- the create/delete race: create(r) with r.name = "A" and delete("A"), ----
\* ---- one of each, against a store holding any fetched collection         ----

Issued(op) == \E t \in DOMAIN tasks : tasks[t].op = op

NextRace ==
    \/ \E goat \in GoatParams :
          goat.name = "A" /\ ~Issued("create") /\ add_goat_async(goat)
    \/ ~Issued("delete") /\ delete_goats_form_onsubmit(<< "A" >>)
    \/ \E t \in TaskIds, status \in Statuses : AddResponded(t, status)
    \/ \E t \in TaskIds : AddSendErr(t)
    \/ \E t \in TaskIds, status \in Statuses : DeleteResponded(t, status)
    \/ \E t \in TaskIds : DeleteSendErr(t)

SpecRace == InitDeletes /\ [][NextRace]_vars

\* ---- the Breed string codec (shared/src/lib.rs) ----

\* enum Breed: a unit variant, or Other with its text
Variant(v) == [variant |-> v, name |-> ""]
Other(name) == [variant |-> "Breed::Other", name |-> name]

Breed_from_str_AnyCase(s) ==
    CASE s \in {"Beetal", "beetal", "BEETAL"} -> Variant("Breed::Beetal")
      [] s = "Jamunapari" -> Variant("Breed::Jamunapari")
      [] s = "Barbari" -> Variant("Breed::Barbari")
      [] s = "Sirohi" -> Variant("Breed::Sirohi")
      [] s = "Osmanabadi" -> Variant("Breed::Osmanabadi")
      [] s = "BlackBengal" -> Variant("Breed::BlackBengal")
      [] s = "Kutchi" -> Variant("Breed::Kutchi")
      [] s = "Kaghani" -> Variant("Breed::Kaghani")
      [] s = "Chegu" -> Variant("Breed::Chegu")
      [] s = "Jakhrana" -> Variant("Breed::Jakhrana")
      [] OTHER -> Other(s)

\* Breed::from_str
Breed_from_str(s) ==
    CASE s = "Beetal" -> Variant("Breed::Beetal")
      [] s = "Jamunapari" -> Variant("Breed::Jamunapari")
      [] s = "Barbari" -> Variant("Breed::Barbari")
      [] s = "Sirohi" -> Variant("Breed::Sirohi")
      [] s = "Osmanabadi" -> Variant("Breed::Osmanabadi")
      [] s = "BlackBengal" -> Variant("Breed::BlackBengal")
      [] s = "Kutchi" -> Variant("Breed::Kutchi")
      [] s = "Kaghani" -> Variant("Breed::Kaghani")
      [] s = "Chegu" -> Variant("Breed::Chegu")
      [] s = "Jakhrana" -> Variant("Breed::Jakhrana")
      [] OTHER -> Other(s)

Breed_to_str_Swapped(breed) ==
    CASE breed.variant = "Breed::Beetal" -> "Beetal"
      [] breed.variant = "Breed::Jamunapari" -> "Jamunapari"
      [] breed.variant = "Breed::Barbari" -> "Barbari"
      [] breed.variant = "Breed::Sirohi" -> "Sirohi"
      [] breed.variant = "Breed::Osmanabadi" -> "Osmanabadi"
      [] breed.variant = "Breed::BlackBengal" -> "BlackBengal"
      [] breed.variant = "Breed::Kutchi" -> "Kaghani"
      [] breed.variant = "Breed::Kaghani" -> "Kutchi"
      [] breed.variant = "Breed::Chegu" -> "Chegu"
      [] breed.variant = "Breed::Jakhrana" -> "Jakhrana"
      [] breed.variant = "Breed::Other" -> breed.name

\* Breed::to_str
Breed_to_str(breed) ==
    CASE breed.variant = "Breed::Beetal" -> "Beetal"
      [] breed.variant = "Breed::Jamunapari" -> "Jamunapari"
      [] breed.variant = "Breed::Barbari" -> "Barbari"
      [] breed.variant = "Breed::Sirohi" -> "Sirohi"
      [] breed.variant = "Breed::Osmanabadi" -> "Osmanabadi"
      [] breed.variant = "Breed::BlackBengal" -> "BlackBengal"
      [] breed.variant = "Breed::Kutchi" -> "Kutchi"
      [] breed.variant = "Breed::Kaghani" -> "Kaghani"
      [] breed.variant = "Breed::Chegu" -> "Chegu"
      [] breed.variant = "Breed::Jakhrana" -> "Jakhrana"
      [] breed.variant = "Breed::Other" -> breed.name

\* the texts handed to Breed::from_str: the tags of the match arms, the same
\* in other letter case, and texts that are no tag
BreedTexts ==
    { "Beetal", "Jamunapari", "Barbari", "Sirohi", "Osmanabadi",
      "BlackBengal", "Kutchi", "Kaghani", "Chegu", "Jakhrana",
      "beetal", "jamunapari", "barbari", "sirohi", "osmanabadi",
      "blackbengal", "kutchi", "kaghani", "chegu", "jakhrana",
      "BEETAL", "Black Bengal", "Blackbengal", "Beetal ", " Beetal",
      "", " ", "Other", "other", "Breed::Beetal", "Boer", "Jamnapari",
      "Kutchi,Kaghani", "Male", "Female", "0" }

InitBreed ==
    /\ store = GoatStore
    /\ tasks = << >>
    /\ found_goat = None
    /\ results = EmptyMap
    /\ codec \in { [NoCodec EXCEPT !.pc = "text", !.text = s] : s \in BreedTexts }
    /\ form = NoForm
    /\ last = Event("init", 0, NoTask, 0, NoBody)

\* let breed = Breed::from_str(text)
BreedParse ==
    /\ codec.pc = "text"
    /\ codec' = [codec EXCEPT !.pc = "parsed", !.value = Some(Breed_from_str(codec.text))]
    /\ UNCHANGED << store, tasks, found_goat, results, form, last >>

\* let out = Breed::to_str(&breed)
BreedSerialize ==
    /\ codec.pc = "parsed"
    /\ codec' = [codec EXCEPT !.pc = "written", !.out = Breed_to_str(codec.value[1])]
    /\ UNCHANGED << store, tasks, found_goat, results, form, last >>

\* let back = Breed::from_str(out)
BreedReparse ==
    /\ codec.pc = "written"
    /\ codec' = [codec EXCEPT !.pc = "reparsed", !.back = Some(Breed_from_str(codec.out))]
    /\ UNCHANGED << store, tasks, found_goat, results, form, last >>

NextBreed ==
    \/ BreedParse
    \/ BreedSerialize
    \/ BreedReparse

SpecBreed == InitBreed /\ [][NextBreed]_vars

\* the Breed values the program can hold: the ten unit variants, and Other
\* of any text (the forms build Breed::Other from the free-text breed field)
BreedValues ==
    { Variant(v) : v \in { "Breed::Beetal", "Breed::Jamunapari", "Breed::Barbari",
                           "Breed::Sirohi", "Breed::Osmanabadi", "Breed::BlackBengal",
                           "Breed::Kutchi", "Breed::Kaghani", "Breed::Chegu",
                           "Breed::Jakhrana" } }
        \cup { Other(s) : s \in BreedTexts }

\* a Breed value is given, to be written and parsed back
InitBreedValues ==
    /\ store = GoatStore
    /\ tasks = << >>
    /\ found_goat = None
    /\ results = EmptyMap
    /\ codec \in { [NoCodec EXCEPT !.pc = "parsed", !.value = Some(b)] : b \in BreedValues }
    /\ form = NoForm
    /\ last = Event("init", 0, NoTask, 0, NoBody)

NextBreedValues ==
    \/ BreedSerialize
    \/ BreedReparse

SpecBreedValues == InitBreedValues /\ [][NextBreedValues]_vars

\* ---- the Gender string codec (shared/src/lib.rs) ----

\* Result<Gender, String>
GenderOk(g) == [ok |-> TRUE, gender |-> g, err |-> ""]
GenderErr(e) == [ok |-> FALSE, gender |-> "", err |-> e]

Gender_from_str_DefaultsMale(s) ==
    CASE s = "Male" -> GenderOk("Gender::Male")
      [] s = "Female" -> GenderOk("Gender::Female")
      [] OTHER -> GenderOk("Gender::Male")

\* Gender::from_str
Gender_from_str(s) ==
    CASE s = "Male" -> GenderOk("Gender::Male")
      [] s = "Female" -> GenderOk("Gender::Female")
      [] OTHER -> GenderErr(s)

\* Gender::to_str
Gender_to_str(gender) ==
    CASE gender = "Gender::Male" -> "Male"
      [] gender = "Gender::Female" -> "Female"

\* the texts handed to Gender::from_str
GenderTexts ==
    BreedTexts \cup { "male", "female", "MALE", "FEMALE", "M", "F", "Male ", " Male",
                      "Mal", "Females", "Male,Female", "Gender::Male", "1", "true" }

InitGender ==
    /\ store = GoatStore
    /\ tasks = << >>
    /\ found_goat = None
    /\ results = EmptyMap
    /\ codec \in { [NoCodec EXCEPT !.pc = "text", !.text = s] : s \in GenderTexts }
    /\ form = NoForm
    /\ last = Event("init", 0, NoTask, 0, NoBody)

\* let parsed = Gender::from_str(text)
GenderParse ==
    /\ codec.pc = "text"
    /\ codec' = [codec EXCEPT !.pc = "parsed", !.value = Some(Gender_from_str(codec.text))]
    /\ UNCHANGED << store, tasks, found_goat, results, form, last >>

\* if let Ok(gender) = parsed { out = Gender::to_str(&gender) }
GenderSerialize ==
    /\ codec.pc = "parsed"
    /\ codec.value[1].ok
    /\ codec' = [codec EXCEPT !.pc = "written", !.out = Gender_to_str(codec.value[1].gender)]
    /\ UNCHANGED << store, tasks, found_goat, results, form, last >>

NextGender ==
    \/ GenderParse
    \/ GenderSerialize

SpecGender == InitGender /\ [][NextGender]_vars

\* ---- the add form (components/add_goat_form.rs): texts are sequences ----
\* ---- of characters                                                     ----

\* the String a text holds
RECURSIVE Str(_)
Str(t) == IF t = << >> THEN "" ELSE Head(t) \o Str(Tail(t))

IsSpace(c) == c \in {" ", "\t", "\n"}

RECURSIVE trim_start(_)
trim_start(t) ==
    IF t # << >> /\ IsSpace(Head(t)) THEN trim_start(Tail(t)) ELSE t

RECURSIVE trim_end(_)
trim_end(t) ==
    IF t # << >> /\ IsSpace(t[Len(t)]) THEN trim_end(SubSeq(t, 1, Len(t) - 1)) ELSE t

\* str::trim
trim(t) == trim_end(trim_start(t))

\* char::to_digit(10), -1 for no digit
to_digit(c) ==
    CASE c = "0" -> 0 [] c = "1" -> 1 [] c = "2" -> 2 [] c = "3" -> 3 [] c = "4" -> 4
      [] c = "5" -> 5 [] c = "6" -> 6 [] c = "7" -> 7 [] c = "8" -> 8 [] c = "9" -> 9
      [] OTHER -> -1

\* a u32 is kept as two 16-bit halves: its value is hi * Half + lo
Half == 65536

U32(hi, lo) == [ok |-> TRUE, hi |-> hi, lo |-> lo]
ParseIntError == [ok |-> FALSE, hi |-> 0, lo |-> 0]

\* the digit loop of u32::from_str: checked_mul(10), then checked_add(digit)
RECURSIVE ParseDigits(_, _)
ParseDigits(acc, t) ==
    IF t = << >> THEN acc
    ELSE LET d == to_digit(Head(t))
             lo == acc.lo * 10 + d
             hi == acc.hi * 10 + lo \div Half
         IN  IF d < 0 \/ hi >= Half THEN ParseIntError
             ELSE ParseDigits(U32(hi, lo % Half), Tail(t))

\* str::parse::<u32>: an optional "+", then one digit at least, no blanks,
\* no "-", no value above u32::MAX
parse_u32(t) ==
    LET digits == IF t # << >> /\ Head(t) = "+" THEN Tail(t) ELSE t
    IN  IF digits = << >> THEN ParseIntError ELSE ParseDigits(U32(0, 0), digits)

\* `x as i32` of a u32: the same 32 bits, read in two's complement
as_i32(n) ==
    IF n.hi >= Half \div 2 THEN (n.hi - Half) * Half + n.lo ELSE n.hi * Half + n.lo

IsDigits(t) == \A i \in DOMAIN t : to_digit(t[i]) >= 0

\* the index of the first character of t that is in cs, 0 if there is none
RECURSIVE IndexOf(_, _, _)
IndexOf(t, cs, i) ==
    IF i > Len(t) THEN 0 ELSE IF t[i] \in cs THEN i ELSE IndexOf(t, cs, i + 1)

Unsigned(t) == IF t # << >> /\ Head(t) \in {"+", "-"} THEN Tail(t) ELSE t

\* str::parse::<f64> succeeds: a sign, then inf, infinity or nan, or digits
\* with at most one point, one digit at least, and an optional exponent
parse_f64_is_ok(t) ==
    LET u == Unsigned(t)
        e == IndexOf(u, {"e", "E"}, 1)
        mantissa == IF e = 0 THEN u ELSE SubSeq(u, 1, e - 1)
        exponent == IF e = 0 THEN << >> ELSE Unsigned(SubSeq(u, e + 1, Len(u)))
        point == IndexOf(mantissa, {"."}, 1)
        int == IF point = 0 THEN mantissa ELSE SubSeq(mantissa, 1, point - 1)
        frac == IF point = 0 THEN << >> ELSE SubSeq(mantissa, point + 1, Len(mantissa))
    IN  \/ Str(u) \in {"inf", "infinity", "nan", "NaN", "Inf", "INF"}
        \/ /\ IsDigits(int)
           /\ IsDigits(frac)
           /\ Len(int) + Len(frac) > 0
           /\ e # 0 => (exponent # << >> /\ IsDigits(exponent))

\* what the user has typed or selected when the form is submitted
NameTexts == { << >>, << " " >>, << "A" >>, << " ", "B", " " >> }
BreedSelections == { << >>, << "B", "e", "e", "t", "a", "l" >>, << "O", "t", "h", "e", "r" >> }
GenderSelections == { << >>, << "M", "a", "l", "e" >>, << "F", "e", "m", "a", "l", "e" >> }
OffspringTexts ==
    { << >>, << "0" >>, << "7" >>, << "+", "7" >>, << "-", "1" >>, << " ", "7" >>,
      << "7", ".", "0" >>, << "x" >>,
      << "2", "1", "4", "7", "4", "8", "3", "6", "4", "7" >>,
      << "2", "1", "4", "7", "4", "8", "3", "6", "4", "8" >>,
      << "4", "2", "9", "4", "9", "6", "7", "2", "9", "5" >>,
      << "4", "2", "9", "4", "9", "6", "7", "2", "9", "6" >> }
CostTexts == { << >>, << "1" >>, << "1", ".", "5" >>, << "1", ",", "5" >> }
WeightTexts == { << "2", "e", "1" >>, << "k", "g" >> }
PriceTexts == { << ".", "5" >>, << "-" >> }

AddForms ==
    [name : NameTexts, breed : BreedSelections, gender : GenderSelections,
     offspring : OffspringTexts, cost : CostTexts, weight : WeightTexts,
     current_price : PriceTexts, error : { None }]

InitAddForm ==
    /\ store = GoatStore
    /\ tasks = << >>
    /\ found_goat = None
    /\ results = EmptyMap
    /\ codec = NoCodec
    /\ form \in AddForms
    /\ last = Event("init", 0, NoTask, 0, NoBody)

AddFormError_NoTrim(f) ==
    CASE f.name = << >> -> "Name is required."
      [] f.breed = << >> -> "Breed is required."
      [] f.gender = << >> -> "Gender is required."
      [] ~parse_u32(f.offspring).ok -> "Offspring must be a number."
      [] ~parse_f64_is_ok(f.cost) -> "Cost must be a number."
      [] ~parse_f64_is_ok(f.weight) -> "Weight must be a number."
      [] ~parse_f64_is_ok(f.current_price) -> "Current price must be a number."
      [] OTHER -> ""

\* the message of the first validation of onsubmit that fails, "" if none does
AddFormError(f) ==
    CASE trim(f.name) = << >> -> "Name is required."
      [] trim(f.breed) = << >> -> "Breed is required."
      [] trim(f.gender) = << >> -> "Gender is required."
      [] ~parse_u32(f.offspring).ok -> "Offspring must be a number."
      [] ~parse_f64_is_ok(f.cost) -> "Cost must be a number."
      [] ~parse_f64_is_ok(f.weight) -> "Weight must be a number."
      [] ~parse_f64_is_ok(f.current_price) -> "Current price must be a number."
      [] OTHER -> ""

\* the GoatParams onsubmit builds from valid fields
AddFormGoat(f) ==
    [name |-> Str(f.name), offspring |-> as_i32(parse_u32(f.offspring))]

\* add_goat_form onsubmit, its validation failed: error.set and return
add_goat_form_onsubmit_invalid ==
    /\ AddFormError(form) # ""
    /\ form' = [form EXCEPT !.error = Some(AddFormError(form))]
    /\ last' = Event("add_goat_form_invalid", 0, NoTask, 0, NoBody)
    /\ UNCHANGED << store, tasks, found_goat, results, codec >>

\* add_goat_form onsubmit with valid fields: GoatStore::add_goat_async with
\* the record built, then the name and breed fields and the error are reset
add_goat_form_onsubmit ==
    LET goat == AddFormGoat(form)
    IN  /\ AddFormError(form) = ""
        /\ Len(tasks) < MaxTasks
        /\ store' = AddBegin(store)
        /\ tasks' = Append(tasks, Task("create", goat.name, Some(goat)))
        /\ form' = [form EXCEPT !.name = << >>, !.breed = << >>, !.error = None]
        /\ last' = Event("add_goat_form", Len(tasks) + 1,
                         Task("create", goat.name, Some(goat)), 0, NoBody)
        /\ UNCHANGED << found_goat, results, codec >>

NextAddForm ==
    \/ add_goat_form_onsubmit_invalid
    \/ add_goat_form_onsubmit
    \/ \E t \in TaskIds, status \in Statuses : AddResponded(t, status)
    \/ \E t \in TaskIds : AddSendErr(t)

SpecAddForm == InitAddForm /\ [][NextAddForm]_vars

\* ---- one update and one delete, in any order, against a store holding ----
\* ---- any fetched collection                                           ----

NextUpdates ==
    \/ \E search_name \in Queries : on_search(search_name)
    \/ \E updated \in GoatParams : ~Issued("update") /\ update_goat_form_onsubmit(updated)
    \/ \E t \in TaskIds, status \in Statuses : UpdateResponded(t, status)
    \/ \E t \in TaskIds : UpdateSendErr(t)
    \/ \E goat_name \in Names : ~Issued("delete") /\ delete_goats_form_onsubmit(<< goat_name >>)
    \/ \E t \in TaskIds, status \in Statuses : DeleteResponded(t, status)
    \/ \E t \in TaskIds : DeleteSendErr(t)

SpecUpdates == InitDeletes /\ [][NextUpdates]_vars

\* ---- the goat list (components/goat_list.rs) next to the add form ----

GoatListView_RefreshOnError(s) ==
    IF s.loading THEN "loading" ELSE "table"

\* what html! renders: the loading text, else the error, else the Refresh
\* button and the table
GoatListView(s) ==
    IF s.loading THEN "loading"
    ELSE IF s.error # None THEN "error"
    ELSE "table"

\* use_effect_with((), ..): one fetch after the first render
goat_list_mount ==
    /\ last.ev = "init"
    /\ fetch_goats

\* the Refresh button's onclick; the button exists only in the table view
refresh ==
    /\ last.ev # "init"
    /\ GoatListView(store) = "table"
    /\ fetch_goats

NextGoatList ==
    \/ goat_list_mount
    \/ refresh
    \/ \E t \in TaskIds, status \in Statuses : FetchSendOk(t, status)
    \/ \E t \in TaskIds : FetchSendErr(t)
    \/ \E t \in TaskIds, body \in Bodies : FetchJson(t, body)
    \/ \E goat \in GoatParams : last.ev # "init" /\ add_goat_async(goat)
    \/ \E t \in TaskIds, status \in Statuses : AddResponded(t, status)
    \/ \E t \in TaskIds : AddSendErr(t)

SpecGoatList == Init /\ [][NextGoatList]_vars

\* ---- the update form (components/update_goat_form.rs) with one update: ----
\* ---- a record has all the fields of shared::GoatParams, an f64 is a     ----
\* ---- number of tenths                                                  ----

from_digit(d) ==
    CASE d = 0 -> "0" [] d = 1 -> "1" [] d = 2 -> "2" [] d = 3 -> "3" [] d = 4 -> "4"
      [] d = 5 -> "5" [] d = 6 -> "6" [] d = 7 -> "7" [] d = 8 -> "8" [] d = 9 -> "9"

\* the decimal digits of n >= 0
RECURSIVE Digits(_)
Digits(n) ==
    IF n < 10 THEN << from_digit(n) >> ELSE Append(Digits(n \div 10), from_digit(n % 10))

\* i32::MAX; i32::MIN is -I32Max - 1
I32Max == 2147483647

\* i32::to_string: "-" and the digits of the magnitude, which for i32::MIN
\* is no i32
i32_to_string(n) ==
    IF n >= 0 THEN Digits(n)
    ELSE LET d == (10 - (n % 10)) % 10
         IN  << "-" >> \o (IF n + d = 0 THEN << >> ELSE Digits(-((n + d) \div 10)))
                      \o << from_digit(d) >>

I32(v) == [ok |-> TRUE, value |-> v]
I32Err == [ok |-> FALSE, value |-> 0]

\* the digit loop of i32::from_str: checked_mul(10), then checked_add(digit),
\* or checked_sub(digit) behind a "-"
RECURSIVE ParseSigned(_, _, _)
ParseSigned(acc, t, negative) ==
    IF t = << >> THEN I32(acc)
    ELSE LET d == to_digit(Head(t))
         IN  IF d < 0 \/ acc > I32Max \div 10 \/ acc < -(I32Max \div 10) THEN I32Err
             ELSE IF negative
                  THEN IF acc * 10 < (-I32Max - 1) + d THEN I32Err
                       ELSE ParseSigned(acc * 10 - d, Tail(t), TRUE)
                  ELSE IF acc * 10 > I32Max - d THEN I32Err
                       ELSE ParseSigned(acc * 10 + d, Tail(t), FALSE)

\* str::parse::<i32>: an optional sign, then one digit at least, no blanks,
\* no value outside i32
parse_i32(t) ==
    IF Unsigned(t) = << >> THEN I32Err
    ELSE ParseSigned(0, Unsigned(t), Head(t) = "-")

\* f64::to_string of v tenths, v >= 0: the integer part, then the point and
\* the tenth unless it is 0
f64_to_string(v) ==
    IF v % 10 = 0 THEN Digits(v \div 10)
    ELSE Digits(v \div 10) \o << ".", from_digit(v % 10) >>

F64(v) == [ok |-> TRUE, value |-> v]
F64Err == [ok |-> FALSE, value |-> 0]

\* str::parse::<f64>, the value in tenths for a text of digits with at most
\* one digit behind the point
parse_f64(t) ==
    LET point == IndexOf(t, {"."}, 1)
        int == IF point = 0 THEN t ELSE SubSeq(t, 1, point - 1)
        frac == IF point = 0 THEN << >> ELSE SubSeq(t, point + 1, Len(t))
    IN  IF ~parse_f64_is_ok(t) THEN F64Err
        ELSE F64((IF int = << >> THEN 0 ELSE ParseSigned(0, int, FALSE).value) * 10
                 + (IF frac = << >> THEN 0 ELSE to_digit(frac[1])))

\* the texts a String field of the form holds in this scenario
FieldTexts ==
    { << >>, << " " >>, << "A" >>, << "a" >>, << "B" >>,
      << "B", "e", "e", "t", "a", "l" >>, << "S", "i", "r", "o", "h", "i" >>,
      << "O", "t", "h", "e", "r" >>,
      << "M", "a", "l", "e" >>, << "F", "e", "m", "a", "l", "e" >> }

\* the characters of a String
Chars(s) == CHOOSE t \in FieldTexts : Str(t) = s

\* the records a backend may hold for one goat
Breeds ==
    { Variant("Breed::Beetal"), Variant("Breed::Sirohi"),
      Other("Boer"), Other("Beetal"), Other("") }
I32s == { 0, 7, -1, -10, I32Max, -I32Max - 1 }
Dates == { None, Some(""), Some("2024-01-31") }
Rest ==
    { [gender |-> "Gender::Male", cost |-> 0, diet |-> "", health_status |-> "",
       vaccinations |-> << >>, diseases |-> << >>],
      [gender |-> "Gender::Female", cost |-> 15, diet |-> "hay", health_status |-> "ok",
       vaccinations |-> << "PPR", "FMD" >>, diseases |-> << >>],
      [gender |-> "Gender::Female", cost |-> 20, diet |-> "hay", health_status |-> "",
       vaccinations |-> << >>, diseases |-> << "mastitis" >>] }

StoredGoats ==
    { [name |-> "A", breed |-> b, gender |-> r.gender, offspring |-> o,
       cost |-> r.cost, weight |-> 205, current_price |-> 5,
       diet |-> r.diet, last_bred |-> d, health_status |-> r.health_status,
       vaccinations |-> r.vaccinations, diseases |-> r.diseases] :
        b \in Breeds, o \in I32s, d \in Dates, r \in Rest }

\* records that differ in name and offspring only, for collections of several
ListedGoats ==
    [name : Names \cup {"a"}, breed : { Variant("Breed::Beetal") },
     gender : { "Gender::Female" }, offspring : Offsprings,
     cost : { 15 }, weight : { 205 }, current_price : { 5 },
     diet : { "hay" }, last_bred : { Some("2024-01-31") }, health_status : { "" },
     vaccinations : { << >> }, diseases : { << >> }]

\* the use_state defaults of the form
UpdateForm ==
    [name |-> "", breed |-> "Beetal", other_breed |-> "", gender |-> "Male",
     offspring |-> << >>, cost |-> << >>, weight |-> << >>, current_price |-> << >>,
     diet |-> "", last_bred |-> "", health_status |-> "",
     error |-> None, success |-> None]

InitUpdateForm ==
    /\ store \in { [GoatStore EXCEPT !.goats = gl] :
                     gl \in SeqsUpTo(ListedGoats, MaxGoats)
                            \cup { << g >> : g \in StoredGoats } }
    /\ tasks = << >>
    /\ found_goat = None
    /\ results = EmptyMap
    /\ codec = NoCodec
    /\ form = UpdateForm
    /\ last = Event("init", 0, NoTask, 0, NoBody)

unwrap_or_default_Marked(opt) == IF opt = None THEN "None" ELSE opt[1]

\* Option<String>::unwrap_or_default
unwrap_or_default(opt) == IF opt = None THEN "" ELSE opt[1]

\* on_search, the arm of a goat found: every field is set from the goat
LoadFields(f, goat) ==
    [f EXCEPT !.name = goat.name,
              !.breed = IF goat.breed.variant = "Breed::Other" THEN "Other"
                        ELSE Breed_to_str(goat.breed),
              !.other_breed = IF goat.breed.variant = "Breed::Other" THEN goat.breed.name
                              ELSE "",
              !.gender = Gender_to_str(goat.gender),
              !.offspring = i32_to_string(goat.offspring),
              !.cost = f64_to_string(goat.cost),
              !.weight = f64_to_string(goat.weight),
              !.current_price = f64_to_string(goat.current_price),
              !.diet = goat.diet,
              !.last_bred = unwrap_or_default(goat.last_bred),
              !.health_status = goat.health_status,
              !.error = None]

\* update_goat_form on_search ("Load Goat"), with the fields it sets
update_goat_form_on_search(search_name) ==
    LET query == to_lowercase(search_name)
        i == FindFrom(store.goats, query, 1)
        cleared == [form EXCEPT !.success = None, !.error = None]
    IN  /\ found_goat' = IF query = "" \/ i = 0 THEN None ELSE Some(store.goats[i])
        /\ form' = IF query = ""
                   THEN [cleared EXCEPT !.error =
                            Some(Msg("Please enter the name of goat to update", 0, ""))]
                   ELSE IF i = 0
                   THEN [cleared EXCEPT !.error = Some(Msg("Goat not found", 0, search_name))]
                   ELSE LoadFields(cleared, store.goats[i])
        /\ last' = Event("update_form_search", 0, Task("search", search_name, None), 0, NoBody)
        /\ UNCHANGED << store, tasks, results, codec >>

\* what the user types into the Offspring input of a loaded goat
OffspringEdits == { << "8" >>, << "x" >>, << >> }

\* oninput of the Offspring input; the form is rendered if found_goat.is_some()
offspring_oninput(text) ==
    /\ found_goat # None
    /\ form.offspring # text
    /\ form' = [form EXCEPT !.offspring = text]
    /\ last' = Event("offspring_oninput", 0, NoTask, 0, NoBody)
    /\ UNCHANGED << store, tasks, found_goat, results, codec >>

\* the messages onsubmit collects in errs
UpdateFormErrors(f) ==
    (IF trim(Chars(f.name)) = << >> THEN << "Name must not be empty." >> ELSE << >>)
    \o (IF trim(Chars(f.breed)) = << >> THEN << "Breed must be selected." >> ELSE << >>)
    \o (IF trim(Chars(f.gender)) = << >> THEN << "Gender must be selected." >> ELSE << >>)
    \o (IF ~parse_i32(f.offspring).ok THEN << "Offspring must be integer." >> ELSE << >>)
    \o (IF ~parse_f64(f.cost).ok THEN << "Cost must be number." >> ELSE << >>)
    \o (IF ~parse_f64(f.weight).ok THEN << "Weight must be number." >> ELSE << >>)
    \o (IF ~parse_f64(f.current_price).ok THEN << "Current price must be number." >>
        ELSE << >>)

\* Result::unwrap_or(Gender::Male) of Gender::from_str
gender_unwrap_or_male(res) == IF res.ok THEN res.gender ELSE "Gender::Male"

\* the GoatParams onsubmit builds from valid fields and the goat loaded
UpdateFormGoat(f, found) ==
    [name |-> f.name,
     breed |-> IF f.breed = "Other" THEN Other(f.other_breed) ELSE Breed_from_str(f.breed),
     gender |-> gender_unwrap_or_male(Gender_from_str(f.gender)),
     offspring |-> parse_i32(f.offspring).value,
     cost |-> parse_f64(f.cost).value,
     weight |-> parse_f64(f.weight).value,
     current_price |-> parse_f64(f.current_price).value,
     diet |-> f.diet,
     last_bred |-> Some(f.last_bred),
     health_status |-> f.health_status,
     vaccinations |-> found.vaccinations,
     diseases |-> found.diseases]

\* onsubmit, a validation failed: error.set(errs.join(" ")) and return
update_goat_form_onsubmit_invalid ==
    /\ found_goat # None
    /\ UpdateFormErrors(form) # << >>
    /\ form' = [form EXCEPT !.error = Some(Msg(UpdateFormErrors(form), 0, "")),
                            !.success = None]
    /\ last' = Event("update_form_invalid", 0, NoTask, 0, NoBody)
    /\ UNCHANGED << store, tasks, found_goat, results, codec >>

\* onsubmit with valid fields: the record is built, the optimistic reduce_mut
\* runs and GoatStore::update_goat_async spawns the task
update_goat_form_onsubmit_valid ==
    LET updated == UpdateFormGoat(form, found_goat[1])
    IN  /\ found_goat # None
        /\ UpdateFormErrors(form) = << >>
        /\ ~Issued("update")
        /\ store' = OptimisticReplace(store, updated)
        /\ tasks' = Append(tasks, Task("update", updated.name, Some(updated)))
        /\ last' = Event("update_form_submit", Len(tasks) + 1,
                         Task("update", updated.name, Some(updated)), 0, NoBody)
        /\ UNCHANGED << found_goat, results, codec, form >>

\* the form's on_result callback
update_on_result(f, res) ==
    IF res.ok THEN [f EXCEPT !.error = None,
                             !.success = Some(Msg("Goat updated successfully.", 0, ""))]
    ELSE [f EXCEPT !.error = Some([text |-> "Failed: ", err |-> res])]

\* the PUT of a form's update resolves to Ok(resp)
UpdateFormResponded(t, status) ==
    LET failed == UpdateFailed(store, "Unexpected",
                               Msg("Server returned error while updating", status,
                                   tasks[t].goat_name))
        outcome == IF IsOk(status) THEN ResOk ELSE failed.outcome
    IN  /\ t \in Awaiting("update", "send")
        /\ store' = IF IsOk(status) THEN UpdateOk(store, tasks[t].goat[1])
                                    ELSE failed.store
        /\ tasks' = [tasks EXCEPT ![t] = Finished(@, << outcome >>)]
        /\ form' = update_on_result(form, outcome)
        /\ last' = Event(IF IsOk(status) THEN "update_ok" ELSE "update_server_err",
                         t, tasks[t], status, NoBody)
        /\ UNCHANGED << found_goat, results, codec >>

\* the PUT of a form's update resolves to Err(err)
UpdateFormSendErr(t) ==
    LET failed == UpdateFailed(store, "NetworkError",
                               Msg("Network error while updating", 0, tasks[t].goat_name))
    IN  /\ t \in Awaiting("update", "send")
        /\ store' = failed.store
        /\ tasks' = [tasks EXCEPT ![t] = Finished(@, << failed.outcome >>)]
        /\ form' = update_on_result(form, failed.outcome)
        /\ last' = Event("update_net_err", t, tasks[t], 0, NoBody)
        /\ UNCHANGED << found_goat, results, codec >>

NextUpdateForm ==
    \/ \E search_name \in Queries : update_goat_form_on_search(search_name)
    \/ \E text \in OffspringEdits : offspring_oninput(text)
    \/ update_goat_form_onsubmit_invalid
    \/ update_goat_form_onsubmit_valid
    \/ \E t \in TaskIds, status \in Statuses : UpdateFormResponded(t, status)
    \/ \E t \in TaskIds : UpdateFormSendErr(t)

SpecUpdateForm == InitUpdateForm /\ [][NextUpdateForm]_vars

\* ---- properties ----

Named(gs, n) == { i \in DOMAIN gs : gs[i].name = n }

\* gs without the entries named n, the others in their order
Without(gs, n) ==
    LET Kept(g) == g.name # n
    IN  SelectSeq(gs, Kept)

\* gs with its first entry named like r replaced by r; gs itself if none is
ReplacedFirst(gs, r) ==
    IF Named(gs, r.name) = {} THEN gs
    ELSE LET first == CHOOSE i \in Named(gs, r.name) : \A j \in Named(gs, r.name) : i <= j
         IN  [i \in DOMAIN gs |-> IF i = first THEN r ELSE gs[i]]

IsFailure(res) == ~res.ok /\ res.kind # "" /\ res.msg.text # ""

\* C1: after the continuation that parsed a fetch body as the list L, the store
\* holds goats = L, loading = false and error = None (so a body of [] empties it).
C1_FetchReplacesWholesale ==
    last.ev = "fetch_parsed" =>
        /\ store.goats = last.body.goats
        /\ store.loading = FALSE
        /\ store.error = None

\* a second fetch has replaced what the store held by a non-empty list
C1_Witness ==
    /\ last.ev = "fetch_parsed"
    /\ last.id = 2
    /\ tasks[1].pc = "done"
    /\ last.body.goats # << >>
    /\ store.goats = last.body.goats

\* C2 (as claimed): a fetch answered with a non-ok status ends with
\* loading = false, error = Some(message) and goats unchanged, whatever the body.
C2_NonOkFetchIsFailure ==
    [][ (last'.ev \in {"fetch_parsed", "fetch_parse_err"} /\ ~IsOk(last'.status)) =>
            /\ store'.loading = FALSE
            /\ store'.error # None
            /\ store'.goats = store.goats ]_vars

\* C3: when a fetch fails in transport or its body does not decode, the store
\* ends with loading = false, error = Some(message) and goats as it was.
C3_FetchFailureKeepsGoats ==
    [][ last'.ev \in {"fetch_req_err", "fetch_parse_err"} =>
            /\ store'.loading = FALSE
            /\ store'.error # None
            /\ store'.error[1].text # ""
            /\ store'.goats = store.goats ]_vars

\* a failed fetch has left a non-empty collection in the store
C3_Witness ==
    /\ last.ev \in {"fetch_req_err", "fetch_parse_err"}
    /\ store.goats # << >>
    /\ store.error # None
    /\ store.loading = FALSE

\* C4: an ok response to create(r) appends r as the last entry of goats, keeps
\* every earlier entry in order and sets loading = false.
C4_CreateAppends ==
    [][ last'.ev = "add_ok" =>
            /\ store'.goats = store.goats \o << last'.goat[1] >>
            /\ store'.loading = FALSE ]_vars

\* a created record sits behind an entry the store already held
C4_Witness ==
    /\ last.ev = "add_ok"
    /\ Len(store.goats) >= 2
    /\ store.goats[Len(store.goats)] = last.goat[1]
    /\ store.goats[1] # last.goat[1]
    /\ store.loading = FALSE

\* C5: a non-ok status or a transport failure of create(r) ends with
\* loading = false, error = Some(message) and goats unchanged.
C5_CreateFailureKeepsGoats ==
    [][ last'.ev \in {"add_server_err", "add_net_err"} =>
            /\ store'.loading = FALSE
            /\ store'.error # None
            /\ store'.error[1].text # ""
            /\ store'.goats = store.goats ]_vars

\* a failed create of r has left a non-empty store without r
C5_Witness ==
    /\ last.ev \in {"add_server_err", "add_net_err"}
    /\ store.goats # << >>
    /\ \A i \in DOMAIN store.goats : store.goats[i] # last.goat[1]
    /\ store.error # None
    /\ store.loading = FALSE

\* C6: an ok response to delete(n) removes every entry named n, keeps the others
\* in order (so goats is unchanged when none is named n), and on_result
\* receives Ok(()).
C6_DeleteRemovesAllNamed ==
    [][ last'.ev = "delete_ok" =>
            /\ store'.goats = Without(store.goats, last'.goat_name)
            /\ (Named(store.goats, last'.goat_name) = {} => store'.goats = store.goats)
            /\ tasks'[last'.id].received = << ResOk >> ]_vars

\* a delete has removed what was named n and left an entry of another name
C6_Witness ==
    /\ last.ev = "delete_ok"
    /\ Len(store.goats) < last.initial_len
    /\ store.goats # << >>
    /\ Named(store.goats, last.goat_name) = {}
    /\ tasks[last.id].received = << ResOk >>

\* C7: a non-ok status or a transport failure of delete(n) hands on_result a
\* failure with a message and leaves goats unchanged.
C7_DeleteFailureKeepsGoats ==
    [][ last'.ev \in {"delete_server_err", "delete_net_err"} =>
            /\ store'.goats = store.goats
            /\ Len(tasks'[last'.id].received) = 1
            /\ IsFailure(tasks'[last'.id].received[1]) ]_vars

\* a failed delete of n has left an entry named n in the store
C7_Witness ==
    /\ last.ev \in {"delete_server_err", "delete_net_err"}
    /\ Named(store.goats, last.goat_name) # {}
    /\ IsFailure(tasks[last.id].received[1])

BothDeleted ==
    /\ Len(tasks) = 2
    /\ \A t \in DOMAIN tasks : tasks[t].pc = "done" /\ tasks[t].received = << ResOk >>

NotAB(g) == g.name \notin {"A", "B"}

\* C8: once delete("A") and delete("B"), issued together, have both received ok
\* responses, in either completion order, goats has no entry named "A" or "B",
\* and no step of the two deletes touches an entry with another name.
C8_ConcurrentDeletes ==
    /\ [](BothDeleted => \A i \in DOMAIN store.goats : NotAB(store.goats[i]))
    /\ [][SelectSeq(store'.goats, NotAB) = SelectSeq(store.goats, NotAB)]_vars

\* the delete issued first completed last, something was removed by it and an
\* entry with another name is still there
C8_Witness ==
    /\ BothDeleted
    /\ last.ev = "delete_ok"
    /\ last.id = 1
    /\ Len(store.goats) < last.initial_len
    /\ store.goats # << >>

\* C9: submitting an update of r replaces the first entry named r.name by r in
\* the same step that issues the request, which is then still unresolved; the
\* ok response hands on_result Ok(()) and leaves a replacement that is in
\* place as it is.
C9_UpdateIsOptimistic ==
    [][ /\ last'.ev = "update_goat_form" =>
              /\ store'.goats = ReplacedFirst(store.goats, last'.goat[1])
              /\ tasks'[last'.id].pc = "send"
              /\ tasks'[last'.id].received = << >>
        /\ last'.ev = "update_ok" =>
              /\ tasks'[last'.id].received = << ResOk >>
              /\ \E i \in DOMAIN store'.goats : store'.goats[i] = last'.goat[1]
              /\ ( /\ Named(store.goats, last'.goat_name) # {}
                   /\ ReplacedFirst(store.goats, last'.goat[1]) = store.goats )
                     => store'.goats = store.goats ]_vars

\* goats holds r, and no longer the loaded record of that name
Replaced(r) ==
    /\ found_goat # None
    /\ found_goat[1].name = r.name
    /\ found_goat[1] # r
    /\ \E i \in DOMAIN store.goats : store.goats[i] = r
    /\ \A i \in DOMAIN store.goats : store.goats[i] # found_goat[1]

\* the update of a loaded record is in the store while its request is pending
C9_Witness ==
    /\ last.ev = "update_goat_form"
    /\ tasks[last.id].pc = "send"
    /\ Replaced(last.goat[1])

\* C10: a non-ok status or a transport failure of an update hands on_result a
\* failure with a message and does not roll the local replacement back: goats
\* is left as it was.
C10_FailedUpdateNotRolledBack ==
    [][ last'.ev \in {"update_server_err", "update_net_err"} =>
            /\ store'.goats = store.goats
            /\ Len(tasks'[last'.id].received) = 1
            /\ IsFailure(tasks'[last'.id].received[1]) ]_vars

\* after a failed update goats holds the new record, not the loaded one
C10_Witness ==
    /\ last.ev \in {"update_server_err", "update_net_err"}
    /\ IsFailure(tasks[last.id].received[1])
    /\ Replaced(last.goat[1])

\* the steps that process the HTTP-ok response of an operation
OkResponse(e) ==
    \/ e.ev \in {"add_ok", "delete_ok", "update_ok"}
    \/ e.ev = "fetch_parsed" /\ IsOk(e.status)

\* C11: goats changes only in a step that processes the HTTP-ok response of an
\* operation; no invocation step and no failure step changes it.
C11_GoatsChangeOnlyOnOk ==
    [][ store'.goats # store.goats => OkResponse(last') ]_vars

\* a fetch or create whose request or body is still awaited
InFlight(task) == task.op \in {"fetch", "create"} /\ task.pc # "done"

\* C12: loading is true in every state in which a fetch or a create is in
\* flight, also when several of them overlap.
C12_LoadingWhileInFlight ==
    (\E t \in DOMAIN tasks : InFlight(tasks[t])) => store.loading

\* C13: on_result of an update or delete is not invoked before its request
\* resolved, and exactly once when the task has run to its end.
C13_OnResultExactlyOnce ==
    \A t \in DOMAIN tasks :
        tasks[t].op \in {"update", "delete"} =>
            /\ tasks[t].pc # "done" => tasks[t].received = << >>
            /\ tasks[t].pc = "done" => Len(tasks[t].received) = 1

\* of two deletes one has run to its end and handed its callback one failure,
\* the other is still awaiting its response and has handed it nothing
C13_Witness ==
    /\ Len(tasks) = 2
    /\ \A t \in DOMAIN tasks : tasks[t].op = "delete"
    /\ \E t \in DOMAIN tasks :
           /\ tasks[t].pc = "done"
           /\ Len(tasks[t].received) = 1
           /\ IsFailure(tasks[t].received[1])
    /\ \E t \in DOMAIN tasks : tasks[t].pc # "done" /\ tasks[t].received = << >>

\* the steps of update and delete: the forms' submit and every completion
UpdateDeleteSteps ==
    { "update_goat_form", "update_ok", "update_server_err", "update_net_err",
      "delete_goats_form", "delete_ok", "delete_server_err", "delete_net_err" }

\* C14: no step of update or delete writes loading or error, whatever the
\* outcome; a failure is handed to on_result only.
C14_UpdateDeleteFrame ==
    [][ last'.ev \in UpdateDeleteSteps =>
            /\ store'.loading = store.loading
            /\ store'.error = store.error ]_vars

\* a delete has failed while a fetch is in flight: loading is still true and
\* error still None, the failure is in the callback's hands
C14_Witness ==
    /\ last.ev \in {"delete_server_err", "delete_net_err", "update_server_err", "update_net_err"}
    /\ IsFailure(tasks[last.id].received[1])
    /\ store.loading
    /\ store.error = None

\* C19: a failure of update or delete handed to on_result is a NetworkError
\* when the transport failed and an Unexpected when the status was not ok,
\* each with a message; no result is ever a NotFound or an InvalidInput.
C19_FailureKinds ==
    /\ \A t \in DOMAIN tasks : \A i \in DOMAIN tasks[t].received :
           LET res == tasks[t].received[i]
           IN  res.ok \/ (res.kind \in {"NetworkError", "Unexpected"} /\ res.msg.text # "")
    /\ last.ev \in {"delete_net_err", "update_net_err"} =>
           tasks[last.id].received[1].kind = "NetworkError"
    /\ last.ev \in {"delete_server_err", "update_server_err"} =>
           tasks[last.id].received[1].kind = "Unexpected"

\* of two deletes one met a transport failure and then the other a non-ok
\* status: the callbacks hold a NetworkError and an Unexpected
C19_Witness ==
    /\ last.ev = "delete_server_err"
    /\ tasks[last.id].received[1].kind = "Unexpected"
    /\ \E t \in DOMAIN tasks :
           /\ tasks[t].received # << >>
           /\ tasks[t].received[1].kind = "NetworkError"

\* C17: in every state, so also after a failed operation, a fetch and a create
\* are accepted (as long as the task bound leaves room); invoking one sets
\* loading = true and error = None in that step and changes nothing else; and
\* its ok completion depends on the store and the response only: a parsed
\* fetch leaves the parsed list with loading = false and error = None, an
\* acknowledged create appends its record and clears loading.
C17_UsableAfterFailure ==
    /\ [](Len(tasks) < MaxTasks =>
             /\ ENABLED fetch_goats
             /\ \A goat \in GoatParams : ENABLED add_goat_async(goat))
    /\ [][ /\ last'.ev \in {"fetch_goats", "add_goat_async"} =>
                 store' = [store EXCEPT !.loading = TRUE, !.error = None]
           /\ (last'.ev = "fetch_parsed" /\ IsOk(last'.status)) =>
                 store' = [goats |-> last'.body.goats, loading |-> FALSE, error |-> None]
           /\ last'.ev = "add_ok" =>
                 store' = [store EXCEPT !.goats = Append(@, last'.goat[1]),
                                        !.loading = FALSE] ]_vars

\* a delete has failed, and the create invoked after it was acknowledged:
\* its record is in goats, loading is false and error is None
C17_Witness ==
    /\ Len(tasks) = 2
    /\ tasks[1].op = "delete"
    /\ tasks[1].received # << >>
    /\ IsFailure(tasks[1].received[1])
    /\ last.ev = "add_ok"
    /\ last.id = 2
    /\ store = [goats |-> << last.goat[1] >>, loading |-> FALSE, error |-> None]

\* the result of the delete of name n, read off what the callbacks received:
\* the failure that names n if there is one, success otherwise
OutcomeOf(n) ==
    LET failures == { tasks[t].received[1] :
                        t \in { u \in DOMAIN tasks : tasks[u].received # << >>
                                                     /\ ~tasks[u].received[1].ok } }
    IN  IF \E res \in failures : res.msg.name = n
        THEN CHOOSE res \in failures : res.msg.name = n
        ELSE ResOk

\* C15: once the deletes of a submitted batch {"A", "B"} have all completed, in
\* whichever order, the form's results map has exactly the entries "A" and
\* "B", each with the text of that name's own outcome.
C15_BatchResultsComplete ==
    (Len(tasks) = 2 /\ \A t \in DOMAIN tasks : tasks[t].pc = "done") =>
        /\ DOMAIN results = {"A", "B"}
        /\ \A n \in {"A", "B"} : results[n] = ResultText(OutcomeOf(n))

\* the create and the delete of the race have both run to their end
RaceOver ==
    /\ Issued("create")
    /\ Issued("delete")
    /\ \A t \in DOMAIN tasks : tasks[t].pc = "done"

\* the delete of the race was answered ok
DeleteWasOk ==
    \E t \in DOMAIN tasks : tasks[t].op = "delete" /\ tasks[t].received = << ResOk >>

\* C16: with create(r), r.name = "A", and delete("A") both issued and both
\* completed: if the ok completion of the delete ran last, goats has no entry
\* named "A"; if the ok completion of the create ran last, after the delete
\* was answered ok, goats contains r.
C16_LastCompletionWins ==
    RaceOver =>
        /\ last.ev = "delete_ok" => Named(store.goats, "A") = {}
        /\ (last.ev = "add_ok" /\ DeleteWasOk) =>
               \E i \in DOMAIN store.goats : store.goats[i] = last.goat[1]

\* the delete was answered ok first and the create after it: r is the one
\* entry named "A", behind the entries the store held under other names
C16_Witness ==
    /\ RaceOver
    /\ last.ev = "add_ok"
    /\ DeleteWasOk
    /\ Len(store.goats) > 1
    /\ Named(store.goats, "A") = { Len(store.goats) }
    /\ store.goats[Len(store.goats)] = last.goat[1]

\* the create was acknowledged first and the delete after it: no entry is
\* named "A", r included, and the other entries are still there
C16_WitnessDeleteLast ==
    /\ RaceOver
    /\ last.ev = "delete_ok"
    /\ store.loading = FALSE
    /\ store.error = None
    /\ last.initial_len > Len(store.goats)
    /\ store.goats # << >>

\* C18: if every request resolves, every invoked fetch, create, update and
\* delete runs to its end, and loading is eventually false for good (the
\* invocations of a run are finitely many).
C18_EveryOperationCompletes ==
    /\ \A t \in TaskIds :
           (t \in DOMAIN tasks) ~> (t \in DOMAIN tasks /\ tasks[t].pc = "done")
    /\ <>[](~store.loading)

\* a fetch and a create have both been through Pending, one left an error and
\* both are over: loading is false again
C18_Witness ==
    /\ Len(tasks) = MaxTasks
    /\ \E t \in DOMAIN tasks : tasks[t].op = "fetch"
    /\ \E t \in DOMAIN tasks : tasks[t].op = "create"
    /\ \A t \in DOMAIN tasks : tasks[t].pc = "done"
    /\ store.error # None
    /\ ~store.loading

\* the ten canonical breed tags
CanonicalTags ==
    { "Beetal", "Jamunapari", "Barbari", "Sirohi", "Osmanabadi",
      "BlackBengal", "Kutchi", "Kaghani", "Chegu", "Jakhrana" }

\* C20: a text that is one of the ten canonical tags parses to the unit
\* variant of that name, and that variant is written back as the same text.
C20_CanonicalTagsRoundTrip ==
    codec.text \in CanonicalTags =>
        /\ codec.pc \in {"parsed", "written"} =>
               codec.value = Some([variant |-> "Breed::" \o codec.text, name |-> ""])
        /\ codec.pc = "written" => codec.out = codec.text

\* "Kaghani" was parsed to Breed::Kaghani and written back as "Kaghani"
C20_Witness ==
    /\ codec.pc = "written"
    /\ codec.text = "Kaghani"
    /\ codec.value = Some(Variant("Breed::Kaghani"))
    /\ codec.out = "Kaghani"

\* C21: a text that is none of the ten canonical tags (the empty text,
\* "Other" and the tags in other letter case included) parses to Other of that
\* text, never to a failure, and that value is written back as the same text.
C21_UnknownTextIsOther ==
    codec.text \notin CanonicalTags =>
        /\ codec.pc \in {"parsed", "written", "reparsed"} => codec.value = Some(Other(codec.text))
        /\ codec.pc \in {"written", "reparsed"} => codec.out = codec.text

\* "beetal" was parsed to Other("beetal") and written back as "beetal"
C21_Witness ==
    /\ codec.pc = "written"
    /\ codec.text = "beetal"
    /\ codec.value = Some(Other("beetal"))
    /\ codec.out = "beetal"

\* C22: every Breed value b, every Other(s) included, is parsed back from the
\* text it was written as: parse(serialize(b)) = b.
C22_NoCollisions ==
    codec.pc = "reparsed" => codec.back = codec.value

\* C23: Gender parse is Ok exactly on "Male" and "Female", which it maps to
\* the variant of that name and which are written back as the same text; on
\* every other text it is an Err and holds no gender.
C23_GenderParse ==
    codec.pc \in {"parsed", "written"} =>
        /\ codec.value[1].ok <=> codec.text \in {"Male", "Female"}
        /\ codec.value[1].ok => codec.value[1].gender = "Gender::" \o codec.text
        /\ ~codec.value[1].ok => codec.value[1].gender = ""
        /\ codec.pc = "written" => codec.out = codec.text

\* "female" was refused, with no gender in the result
C23_Witness ==
    /\ codec.pc = "parsed"
    /\ codec.text = "female"
    /\ codec.value = Some(GenderErr("female"))

\* "Female" was parsed to Gender::Female and written back as "Female"
C23_WitnessFemale ==
    /\ codec.pc = "written"
    /\ codec.text = "Female"
    /\ codec.value = Some(GenderOk("Gender::Female"))
    /\ codec.out = "Female"

\* a text that is no number in any notation: it has no digit, or a character
\* that no numeral has
NotANumber(t) ==
    \/ \A i \in DOMAIN t : to_digit(t[i]) < 0
    \/ \E i \in DOMAIN t : to_digit(t[i]) < 0 /\ t[i] \notin {"+", "-", ".", "e", "E", " "}

Blank(t) == \A i \in DOMAIN t : t[i] = " "

\* the add form's fields fail the client-side validation the claim lists
FailsValidation(f) ==
    \/ Blank(f.name)
    \/ f.breed = << >>
    \/ f.gender = << >>
    \/ NotANumber(f.offspring)
    \/ NotANumber(f.cost)
    \/ NotANumber(f.weight)
    \/ NotANumber(f.current_price)

\* C24: a submit of the add form with an empty or blank name, an empty breed
\* or gender, or an offspring, cost, weight or current-price text that is no
\* number invokes no create, issues no request and leaves the store as it is.
C24_InvalidFormNeverReachesStore ==
    [][ (FailsValidation(form) /\ last'.ev \in {"add_goat_form", "add_goat_form_invalid"}) =>
            /\ store' = store
            /\ tasks' = tasks ]_vars

\* a form with a blank name was submitted: the form shows its error, no task
\* exists and the store is as constructed
C24_Witness ==
    /\ last.ev = "add_goat_form_invalid"
    /\ form.name = << " " >>
    /\ form.error = Some("Name is required.")
    /\ tasks = << >>
    /\ store = GoatStore

\* C28: the record the add form passes to create has offspring >= 0, equal to
\* the number entered, for every accepted text up to u32::MAX.
C28_OffspringNonNegative ==
    last.ev = "add_goat_form" =>
        LET entered == parse_u32(form.offspring)
            offspring == last.goat[1].offspring
        IN  /\ offspring >= 0
            /\ offspring \div Half = entered.hi
            /\ offspring % Half = entered.lo

\* the names "A" and "a" differ in letter case only
SameButCase(n, m) == n # m /\ {n, m} = {"A", "a"}

\* C25: the ok response of delete(n) removes the entries named exactly n and
\* keeps, in their order, the entries whose name differs from n in letter
\* case only.
C25_DeleteIsCaseSensitive ==
    [][ last'.ev = "delete_ok" =>
            LET n == last'.goat_name
                CaseVariant(g) == SameButCase(g.name, n)
            IN  /\ Named(store'.goats, n) = {}
                /\ SelectSeq(store'.goats, CaseVariant) = SelectSeq(store.goats, CaseVariant) ]_vars

\* delete("A") has removed an entry and an entry named "a" is still there
C25_Witness ==
    /\ last.ev = "delete_ok"
    /\ last.goat_name = "A"
    /\ Len(store.goats) < last.initial_len
    /\ Named(store.goats, "a") # {}

\* C26: the ok response of update(r) replaces the first entry named r.name
\* and nothing else; if no entry has that name then, it appends r and changes
\* no entry.
C26_UpdateChangesOnePosition ==
    [][ last'.ev = "update_ok" =>
            LET r == last'.goat[1]
            IN  store'.goats = IF Named(store.goats, r.name) = {}
                               THEN Append(store.goats, r)
                               ELSE ReplacedFirst(store.goats, r) ]_vars

\* the name was deleted while the update was in flight: the ok response of the
\* update has appended r behind the entries that were left
C26_Witness ==
    /\ last.ev = "update_ok"
    /\ \E t \in DOMAIN tasks : tasks[t].op = "delete" /\ tasks[t].received = << ResOk >>
    /\ Len(store.goats) > 1
    /\ store.goats[Len(store.goats)] = last.goat[1]
    /\ Named(store.goats, last.goat_name) = { Len(store.goats) }

\* a later duplicate of the name is untouched by the ok response
C26_WitnessDuplicate ==
    /\ last.ev = "update_ok"
    /\ Len(store.goats) = 2
    /\ store.goats[1] = last.goat[1]
    /\ store.goats[2].name = last.goat_name
    /\ store.goats[2] # last.goat[1]

\* C29: the Refresh button can be clicked only when loading is false and
\* error is None; while the list shows the loading text or an error, so after
\* a failed fetch or create until error is cleared, no Refresh is possible.
C29_RefreshOnlyInTableView ==
    /\ [](ENABLED refresh => (~store.loading /\ store.error = None))
    /\ []((store.loading \/ store.error # None) => ~ENABLED refresh)
    /\ [][ (last.ev # "init" /\ last'.ev = "fetch_goats") =>
               (~store.loading /\ store.error = None) ]_vars

\* a fetch has failed and room for a task is left, but the list shows the
\* error and no Refresh button
C29_Witness ==
    /\ last.ev \in {"fetch_req_err", "fetch_parse_err", "add_server_err", "add_net_err"}
    /\ Len(tasks) < MaxTasks
    /\ GoatListView(store) = "error"
    /\ ~ENABLED refresh

\* the fields of the form are the ones the load of found_goat wrote
Unedited ==
    /\ found_goat # None
    /\ [form EXCEPT !.error = None, !.success = None]
         = [LoadFields(form, found_goat[1]) EXCEPT !.error = None, !.success = None]

\* C27: a record loaded in the update form and saved with no field edited is
\* submitted equal to the loaded record.
C27_UneditedSaveIsIdentity ==
    [][ (Unedited /\ last'.ev = "update_form_submit") =>
            last'.goat = found_goat ]_vars

\* the positions of goats whose lowercased name is the lowercased query
Matches(gs, q) == { i \in DOMAIN gs : to_lowercase(gs[i].name) = to_lowercase(q) }

Least(S) == CHOOSE i \in S : \A j \in S : i <= j

\* C30: a search for q leaves the store as it is; an empty q loads nothing and
\* sets an error; a q that no name matches, letter case ignored, loads nothing
\* and reports not found; else the first entry in goats order whose name
\* matches, letter case ignored, is loaded.
C30_SearchFirstMatchIgnoringCase ==
    [][ last'.ev = "update_form_search" =>
            LET q == last'.goat_name
                m == Matches(store.goats, q)
            IN  /\ store' = store
                /\ q = "" =>
                      /\ found_goat' = None
                      /\ form'.error = Some(Msg("Please enter the name of goat to update", 0, ""))
                /\ (q # "" /\ m = {}) =>
                      /\ found_goat' = None
                      /\ form'.error = Some(Msg("Goat not found", 0, q))
                /\ (q = "" \/ m = {}) =>
                      [form' EXCEPT !.error = None, !.success = None]
                        = [form EXCEPT !.error = None, !.success = None]
                /\ (q # "" /\ m # {}) =>
                      /\ found_goat' = Some(store.goats[Least(m)])
                      /\ form'.error = None
                      /\ form'.name = store.goats[Least(m)].name ]_vars

\* the query "A" has loaded an entry named "a" that stands before an entry named "A"
C30_Witness ==
    /\ last.ev = "update_form_search"
    /\ last.goat_name = "A"
    /\ Len(store.goats) = 2
    /\ store.goats[1].name = "a"
    /\ store.goats[2].name = "A"
    /\ found_goat = Some(store.goats[1])

\* after a load, a query that matches no name has unloaded the goat
C30_WitnessNotFound ==
    /\ last.ev = "update_form_search"
    /\ last.goat_name = "B"
    /\ store.goats # << >>
    /\ found_goat = None
    /\ form.name = "A"
    /\ form.error = Some(Msg("Goat not found", 0, "B"))

====
